---- MODULE Spec2Model ----
(***************************************************************************)
(* A model of chatdelta's multi-model orchestrator                         *)
(* (src/src/orchestration.rs): AiOrchestrator::query, its strategies, the  *)
(* scoring helpers and the TTL response cache.                             *)
(*                                                                         *)
(* Text is a sequence of one-character strings.  f64 values are exact      *)
(* rationals <<numerator, denominator>>; <<0, 0>> stands for NaN (0.0/0.0).*)
(* Option<T> is <<>> (None) or <<v>> (Some(v)).                            *)
(***************************************************************************)
EXTENDS Integers, Sequences, FiniteSets, TLC

\* ------------------------------------------------------------------ bounds

\* Longest client list an orchestrator is constructed with.
MaxClients == 2
\* Number of query calls issued in one behaviour.
MaxQueries == 2
\* The clock stops advancing at this many seconds.
MaxTime == 3600
\* Seconds that pass in one step of the clock.
TickSecs == 1800
\* Number of query calls issued in one behaviour of the expiry specification.
MaxLookups == 3
\* Largest `retries` execute_with_retry is called with.
MaxRetries == 4
\* Longest client list the free function execute_parallel is called with.
MaxParallelClients == 3
\* Number of calls made on one ChatSession.
MaxSessionCalls == 3
\* Largest number of chunks a response stream yields.
MaxChunks == 2
\* Number of tasks that call record_request on one ClientMetrics.
MaxRecorders == 3

\* --------------------------------------------------------- program constants

\* ResponseCache::new: time_to_live(Duration::from_secs(3600))
CacheTtlSecs == 3600
\* AiOrchestrator::new: ResponseCache::new(1000)
CacheCapacity == 1000

\* --------------------------------------------------------------------- text

UpperChars == <<"A","B","C","D","E","F","G","H","I","J","K","L","M",
                "N","O","P","Q","R","S","T","U","V","W","X","Y","Z">>
LowerChars == <<"a","b","c","d","e","f","g","h","i","j","k","l","m",
                "n","o","p","q","r","s","t","u","v","w","x","y","z">>

\* The grave accent U+0060, the character of a code fence; the lexer of TLA+
\* accepts no grave accent in a string, so the character is named.
Backtick == "GRAVE"

\* char::to_lowercase on ASCII
LowerChar(ch) ==
    IF \E i \in 1..26 : UpperChars[i] = ch
    THEN LowerChars[CHOOSE i \in 1..26 : UpperChars[i] = ch]
    ELSE ch

\* A lowering that leaves every character as it is.
keep_case(s) == s

\* str::to_lowercase
to_lowercase(s) == [i \in 1..Len(s) |-> LowerChar(s[i])]

\* str::contains(&str)
contains(s, pat) ==
    \E i \in 1..(Len(s) - Len(pat) + 1) : SubSeq(s, i, i + Len(pat) - 1) = pat

\* str::contains(char)
contains_char(s, ch) == \E i \in 1..Len(s) : s[i] = ch

\* str::ends_with(char)
ends_with(s, ch) == Len(s) > 0 /\ s[Len(s)] = ch

IsWhitespace(ch) == ch \in {" ", "\n", "\t", "\r"}

\* str::split_whitespace().collect::<Vec<&str>>()
RECURSIVE SplitFrom(_, _, _)
SplitFrom(s, i, word) ==
    IF i > Len(s)
    THEN IF word = <<>> THEN <<>> ELSE <<word>>
    ELSE IF IsWhitespace(s[i])
         THEN (IF word = <<>> THEN <<>> ELSE <<word>>) \o SplitFrom(s, i + 1, <<>>)
         ELSE SplitFrom(s, i + 1, Append(word, s[i]))

split_whitespace(s) == SplitFrom(s, 1, <<>>)

\* ---------------------------------------------------------------- rationals

RECURSIVE Gcd(_, _)
Gcd(a, b) == IF b = 0 THEN a ELSE Gcd(b, a % b)

\* The canonical form of n/d (d > 0); NaN is <<0, 0>>.
Rat(n, d) == IF d = 0 THEN <<0, 0>> ELSE LET g == Gcd(n, d) IN <<n \div g, d \div g>>
IsNaN(x) == x[2] = 0
\* (Common factors are divided out before multiplying, to keep the integers
\* small.)
RatAdd(x, y) ==
    IF IsNaN(x) \/ IsNaN(y) THEN <<0, 0>>
    ELSE LET g == Gcd(x[2], y[2])
         IN Rat(x[1] * (y[2] \div g) + y[1] * (x[2] \div g), (x[2] \div g) * y[2])
RatMul(x, y) ==
    IF IsNaN(x) \/ IsNaN(y) THEN <<0, 0>>
    ELSE LET g1 == Gcd(x[1], y[2])
             g2 == Gcd(y[1], x[2])
         IN Rat((x[1] \div g1) * (y[1] \div g2), (x[2] \div g2) * (y[2] \div g1))
\* x / y; 0/0 is NaN.  (A positive value over zero is +inf and does not occur.)
RatDiv(x, y) ==
    IF IsNaN(x) \/ IsNaN(y) \/ y[1] = 0 THEN <<0, 0>> ELSE Rat(x[1] * y[2], x[2] * y[1])
\* x < y and x <= y; every comparison with NaN is false.
RatLt(x, y) == ~IsNaN(x) /\ ~IsNaN(y) /\ x[1] * y[2] < y[1] * x[2]
RatLe(x, y) == ~IsNaN(x) /\ ~IsNaN(y) /\ x[1] * y[2] <= y[1] * x[2]
\* f64::min: when one argument is NaN the other is returned.
RatMin(x, y) == IF IsNaN(x) THEN y ELSE IF IsNaN(y) THEN x ELSE IF RatLe(x, y) THEN x ELSE y

RECURSIVE RatSum(_)
RatSum(xs) == IF xs = <<>> THEN <<0, 1>> ELSE RatAdd(xs[1], RatSum(Tail(xs)))

RECURSIVE MaxOf(_)
MaxOf(ns) == IF ns = <<>> THEN 0
             ELSE LET m == MaxOf(Tail(ns)) IN IF ns[1] > m THEN ns[1] ELSE m

\* ------------------------------------------------------------ program types

\* enum OrchestrationStrategy
Strategies ==
    {"Parallel", "Sequential", "Specialized", "Consensus", "WeightedFusion",
     "Tournament", "Adaptive"}

\* enum TaskType
TaskTypes == {"Code", "Creative", "Analysis", "Mathematics", "General"}

\* Result<FusedResponse, ClientError>
Ok(v) == [ok |-> TRUE, val |-> <<v>>, err |-> ""]
Err(msg) == [ok |-> FALSE, val |-> <<>>, err |-> msg]

\* One element of the Vec<(String, Result<String, ClientError>, u64)> that
\* join_all yields: the client's name, its result and its measured latency.
ResultTuple(model, ok, text, latency) ==
    [model |-> model, ok |-> ok, text |-> text, latency |-> latency]

\* ------------------------------------------------------------------ scoring

\* AiOrchestrator::analyze_prompt
analyze_prompt(prompt) ==
    LET task_type(prompt_lower) ==
            IF \/ contains(prompt_lower, <<"c","o","d","e">>)
               \/ contains(prompt_lower, <<"f","u","n","c","t","i","o","n">>)
               \/ contains(prompt_lower, <<"i","m","p","l","e","m","e","n","t">>)
            THEN "Code"
            ELSE IF \/ contains(prompt_lower, <<"c","r","e","a","t","i","v","e">>)
                    \/ contains(prompt_lower, <<"s","t","o","r","y">>)
                    \/ contains(prompt_lower, <<"p","o","e","m">>)
            THEN "Creative"
            ELSE IF \/ contains(prompt_lower, <<"a","n","a","l","y","z","e">>)
                    \/ contains(prompt_lower, <<"e","x","p","l","a","i","n">>)
            THEN "Analysis"
            ELSE IF \/ contains(prompt_lower, <<"m","a","t","h">>)
                    \/ contains(prompt_lower, <<"c","a","l","c","u","l","a","t","e">>)
            THEN "Mathematics"
            ELSE "General"
    IN task_type(to_lowercase(prompt))

\* A selector that returns the orchestrator's own strategy field.
select_strategy_configured(self_strategy, task_type) == self_strategy

\* AiOrchestrator::select_strategy.  The orchestrator's own strategy field is
\* passed in to show what the function has at hand; the code reads only the
\* task type.
select_strategy(self_strategy, task_type) ==
    CASE task_type = "Code" -> "Specialized"
      [] task_type = "Creative" -> "Tournament"
      [] task_type = "Analysis" -> "WeightedFusion"
      [] task_type = "Mathematics" -> "Consensus"
      [] OTHER -> "Adaptive"

HasTerminalPunctuation(response) ==
    ends_with(response, ".") \/ ends_with(response, "!") \/ ends_with(response, "?")

\* AiOrchestrator::calculate_confidence
calculate_confidence(response, prompt) ==
    LET expected_length == Len(prompt) * 10
        actual_length == Len(response)
        \* if condition { confidence += bonus }
        add_if(condition, confidence, bonus) ==
            IF condition THEN RatAdd(confidence, bonus) ELSE confidence
        c0 == <<1, 2>>
        c1 == add_if(actual_length > expected_length \div 2
                        /\ actual_length < expected_length * 3,
                     c0, <<1, 10>>)
        c2 == add_if(HasTerminalPunctuation(response), c1, <<1, 10>>)
        c3 == add_if(contains(prompt, <<"c","o","d","e">>)
                        /\ contains(response, <<Backtick, Backtick, Backtick>>),
                     c2, <<1, 5>>)
        c4 == add_if(contains_char(response, "\n") /\ contains_char(response, ":"),
                     c3, <<1, 10>>)
    IN RatMin(c4, <<1, 1>>)

\* AiOrchestrator::calculate_weight
calculate_weight(model, confidence, latency) ==
    LET base_weight == confidence
        latency_factor == Rat(1000, 1000 + latency)
        capability_factor ==
            CASE model = "gpt-4" -> <<6, 5>>
              [] model = "claude-3-opus" -> <<23, 20>>
              [] model = "gemini-1.5-pro" -> <<11, 10>>
              [] OTHER -> <<1, 1>>
    IN RatMin(RatMul(RatMul(base_weight, latency_factor), capability_factor), <<1, 1>>)

\* AiOrchestrator::score_response
score_response(response, prompt) ==
    LET \* matching_words as f64 / prompt_words.len() as f64
        relevance(prompt_words, response_words) ==
            RatDiv(<<Cardinality({i \in 1..Len(prompt_words) :
                        \E j \in 1..Len(response_words) :
                            response_words[j] = prompt_words[i]}), 1>>,
                   <<Len(prompt_words), 1>>)
        \* if condition { score += bonus }
        add_if(condition, score, bonus) == IF condition THEN RatAdd(score, bonus) ELSE score
        s0 == <<50, 1>>
        s1 == add_if(Len(response) > 50, s0, <<10, 1>>)
        s2 == RatAdd(s1, RatMul(relevance(split_whitespace(prompt),
                                          split_whitespace(response)),
                                <<20, 1>>))
        s3 == add_if(contains_char(response, "\n"), s2, <<10, 1>>)
        s4 == add_if(HasTerminalPunctuation(response), s3, <<10, 1>>)
    IN RatMin(s4, <<100, 1>>)

\* AiOrchestrator::estimate_cost
RECURSIVE estimate_cost(_)
estimate_cost(results) ==
    IF results = <<>> THEN <<0, 1>>
    ELSE LET r == results[Len(results)]
             rest == estimate_cost(SubSeq(results, 1, Len(results) - 1))
             tokens == Len(r.text) \div 4
             rate == CASE r.model = "gpt-4" -> <<3, 100>>
                       [] r.model = "claude-3-opus" -> <<25, 1000>>
                       [] r.model = "gemini-1.5-pro" -> <<2, 100>>
                       [] OTHER -> <<1, 100>>
         IN IF r.ok THEN RatAdd(rest, RatMul(Rat(tokens, 1000), rate)) ELSE rest

\* ------------------------------------------------------------------- fusion

\* struct ModelContribution
ModelContribution(model, response, confidence, weight, latency_ms) ==
    [model |-> model, response |-> response, confidence |-> confidence,
     weight |-> weight, latency_ms |-> latency_ms]

\* struct ConsensusAnalysis
ConsensusAnalysis(agreement_score, key_points) ==
    [agreement_score |-> agreement_score, key_points |-> key_points,
     disagreements |-> <<>>, fact_verification |-> <<>>]

\* struct OrchestrationMetrics, as the three fusions build it: cache_hit
\* false and tokens_saved 0
OrchestrationMetrics(total_latency_ms, models_used, cost_estimate) ==
    [total_latency_ms |-> total_latency_ms, models_used |-> models_used,
     cache_hit |-> FALSE, tokens_saved |-> 0, cost_estimate |-> cost_estimate]

\* struct FusedResponse
FusedResponse(content, confidence, contributions, consensus, metrics) ==
    [content |-> content, confidence |-> confidence, contributions |-> contributions,
     consensus |-> consensus, metrics |-> metrics]

\* results.iter().map(|(_, _, l)| l).max().copied().unwrap_or(0)
MaxLatency(results) == MaxOf([i \in 1..Len(results) |-> results[i].latency])

\* A loop that pushes a contribution for every result, failed ones too.
ParallelContributionsAll(results) ==
    [i \in 1..Len(results) |->
        ModelContribution(results[i].model, results[i].text, <<4, 5>>, <<1, 3>>,
                          results[i].latency)]

\* The loop of fuse_responses: one contribution per Ok result, in order.
RECURSIVE ParallelContributions(_)
ParallelContributions(results) ==
    IF results = <<>> THEN <<>>
    ELSE LET r == results[Len(results)]
             rest == ParallelContributions(SubSeq(results, 1, Len(results) - 1))
         IN IF r.ok
            THEN Append(rest, ModelContribution(r.model, r.text, <<4, 5>>, <<1, 3>>, r.latency))
            ELSE rest

\* A fusion that takes its content from the first result, not from the
\* first contribution.
fuse_responses_first_result(results) ==
    LET fused(contributions) ==
            IF contributions = <<>>
            THEN Err("No successful responses")
            ELSE Ok(FusedResponse(results[1].text, <<17, 20>>, contributions,
                                  ConsensusAnalysis(<<4, 5>>, <<>>),
                                  OrchestrationMetrics(2000, 3, <<1, 20>>)))
    IN fused(ParallelContributions(results))

\* AiOrchestrator::fuse_responses
fuse_responses(results) ==
    LET fused(contributions) ==
            IF contributions = <<>>
            THEN Err("No successful responses")
            ELSE Ok(FusedResponse(contributions[1].response, <<17, 20>>, contributions,
                                  ConsensusAnalysis(<<4, 5>>, <<>>),
                                  OrchestrationMetrics(2000, 3, <<1, 20>>)))
    IN fused(ParallelContributions(results))

\* The loop of execute_weighted_fusion: one scored contribution per Ok result.
RECURSIVE WeightedContributions(_, _)
WeightedContributions(results, prompt) ==
    IF results = <<>> THEN <<>>
    ELSE LET r == results[Len(results)]
             contribution(confidence) ==
                 ModelContribution(r.model, r.text, confidence,
                                   calculate_weight(r.model, confidence, r.latency),
                                   r.latency)
             pushed(rest) ==
                 IF r.ok
                 THEN Append(rest, contribution(calculate_confidence(r.text, prompt)))
                 ELSE rest
         IN pushed(WeightedContributions(SubSeq(results, 1, Len(results) - 1), prompt))

\* A selection that takes the first contribution.
MaxByWeightFirst(contributions) == IF contributions = <<>> THEN 0 ELSE 1

\* Iterator::max_by over the weights: the index of the last maximal element
\* (0 for an empty slice).
RECURSIVE MaxByWeight(_)
MaxByWeight(contributions) ==
    IF contributions = <<>> THEN 0
    ELSE LET n == Len(contributions)
             later(best) ==
                 IF best = 0 THEN n
                 ELSE IF RatLt(contributions[n].weight, contributions[best].weight)
                      THEN best ELSE n
         IN later(MaxByWeight(SubSeq(contributions, 1, n - 1)))

\* AiOrchestrator::weighted_merge
weighted_merge(contributions) ==
    IF contributions = <<>> THEN <<>>
    ELSE contributions[MaxByWeight(contributions)].response

\* AiOrchestrator::analyze_consensus: the agreement score
analyze_consensus(contributions) ==
    RatDiv(RatSum([i \in 1..Len(contributions) |-> contributions[i].confidence]),
           <<Len(contributions), 1>>)

\* A total that is not divided by the sum of the weights.
calculate_total_confidence_unnormalized(contributions) ==
    RatSum([i \in 1..Len(contributions) |->
                RatMul(contributions[i].confidence, contributions[i].weight)])

\* AiOrchestrator::calculate_total_confidence
calculate_total_confidence(contributions) ==
    LET weighted_sum ==
            RatSum([i \in 1..Len(contributions) |->
                        RatMul(contributions[i].confidence, contributions[i].weight)])
        total(weight_sum) ==
            IF RatLt(<<0, 1>>, weight_sum) THEN RatDiv(weighted_sum, weight_sum) ELSE <<0, 1>>
    IN total(RatSum([i \in 1..Len(contributions) |-> contributions[i].weight]))

\* AiOrchestrator::execute_weighted_fusion, from the gathered results on
execute_weighted_fusion(results, prompt) ==
    LET fused(contributions) ==
            Ok(FusedResponse(weighted_merge(contributions),
                             calculate_total_confidence(contributions),
                             contributions,
                             ConsensusAnalysis(analyze_consensus(contributions),
                                               << <<"Models processed query successfully">> >>),
                             OrchestrationMetrics(MaxLatency(results), Len(results),
                                                  estimate_cost(results))))
    IN fused(WeightedContributions(results, prompt))

\* The scoring loop of execute_tournament: (model, content, score, latency)
\* per Ok result.
RECURSIVE ScoredResponses(_, _)
ScoredResponses(results, prompt) ==
    IF results = <<>> THEN <<>>
    ELSE LET r == results[Len(results)]
             pushed(rest) ==
                 IF r.ok
                 THEN Append(rest, [model |-> r.model, content |-> r.text,
                                    score |-> score_response(r.text, prompt),
                                    latency |-> r.latency])
                 ELSE rest
         IN pushed(ScoredResponses(SubSeq(results, 1, Len(results) - 1), prompt))

\* An insertion that puts x before the elements of its own score (a sort
\* that is not stable).
RECURSIVE InsertByScoreBeforeEqual(_, _)
InsertByScoreBeforeEqual(sorted, x) ==
    IF sorted = <<>> THEN <<x>>
    ELSE IF RatLe(sorted[1].score, x.score)
         THEN <<x>> \o sorted
         ELSE <<sorted[1]>> \o InsertByScoreBeforeEqual(Tail(sorted), x)

\* x put into a list sorted by descending score, after every element that
\* does not compare below it (the sort is stable).
RECURSIVE InsertByScore(_, _)
InsertByScore(sorted, x) ==
    IF sorted = <<>> THEN <<x>>
    ELSE IF RatLt(sorted[1].score, x.score)
         THEN <<x>> \o sorted
         ELSE <<sorted[1]>> \o InsertByScore(Tail(sorted), x)

\* scored_responses.sort_by(|a, b| b.2.partial_cmp(&a.2).unwrap())
RECURSIVE SortByScore(_)
SortByScore(scored) ==
    IF scored = <<>> THEN <<>>
    ELSE InsertByScore(SortByScore(SubSeq(scored, 1, Len(scored) - 1)), scored[Len(scored)])

\* AiOrchestrator::execute_tournament, from the gathered results on
execute_tournament(results, prompt) ==
    LET fused(scored_responses) ==
            IF scored_responses = <<>>
            THEN Err("No valid responses in tournament")
            ELSE LET winner == scored_responses[1] IN
                 Ok(FusedResponse(
                        winner.content,
                        RatDiv(winner.score, <<100, 1>>),
                        [i \in 1..Len(scored_responses) |->
                            ModelContribution(scored_responses[i].model,
                                              scored_responses[i].content,
                                              RatDiv(scored_responses[i].score, <<100, 1>>),
                                              IF scored_responses[i].model = winner.model
                                              THEN <<1, 1>> ELSE <<0, 1>>,
                                              scored_responses[i].latency)],
                        ConsensusAnalysis(<<0, 1>>, << <<"Winner: ", winner.model>> >>),
                        OrchestrationMetrics(MaxLatency(results), Len(results),
                                             estimate_cost(results))))
    IN fused(SortByScore(ScoredResponses(results, prompt)))

\* AiOrchestrator::execute_parallel, from the joined results on
execute_parallel(results) == fuse_responses(results)

\* AiOrchestrator::execute_sequential
execute_sequential(results) == execute_parallel(results)

\* AiOrchestrator::execute_specialized
execute_specialized(results, task_type) == execute_parallel(results)

\* A consensus that runs the tournament.
execute_consensus_tournament(results, prompt) == execute_tournament(results, prompt)

\* AiOrchestrator::execute_consensus
execute_consensus(results, prompt) == execute_weighted_fusion(results, prompt)

\* AiOrchestrator::execute_adaptive
execute_adaptive(results, prompt, task_type) ==
    CASE task_type = "Code" -> execute_specialized(results, task_type)
      [] task_type = "Creative" -> execute_tournament(results, prompt)
      [] OTHER -> execute_weighted_fusion(results, prompt)

\* The match on selected_strategy in AiOrchestrator::query
Execute(selected_strategy, results, prompt, task_type) ==
    CASE selected_strategy = "Parallel" -> execute_parallel(results)
      [] selected_strategy = "Sequential" -> execute_sequential(results)
      [] selected_strategy = "Specialized" -> execute_specialized(results, task_type)
      [] selected_strategy = "Consensus" -> execute_consensus(results, prompt)
      [] selected_strategy = "WeightedFusion" -> execute_weighted_fusion(results, prompt)
      [] selected_strategy = "Tournament" -> execute_tournament(results, prompt)
      [] OTHER -> execute_adaptive(results, prompt, task_type)

\* Every execute_* function gathers, the delegating ones too.
gathers_always(s) == TRUE

\* The execute_* function of a strategy gathers the clients' answers itself
\* (execute_parallel builds the futures and joins them; execute_weighted_fusion
\* and execute_tournament call gather_responses) instead of calling another
\* execute_* function.
gathers(s) == s \in {"Parallel", "WeightedFusion", "Tournament"}

\* The execute_* function that the execute_* function of a strategy calls,
\* for the delegating ones.
delegate(s, task_type) ==
    CASE s = "Sequential" -> "Parallel"
      [] s = "Specialized" -> "Parallel"
      [] s = "Consensus" -> "WeightedFusion"
      [] s = "Adaptive" ->
            (CASE task_type = "Code" -> "Specialized"
               [] task_type = "Creative" -> "Tournament"
               [] OTHER -> "WeightedFusion")

\* The execute_* functions entered for a selected strategy, outermost first.
RECURSIVE delegation_chain(_, _)
delegation_chain(s, task_type) ==
    IF s \in {"Parallel", "WeightedFusion", "Tournament"} THEN <<s>>
    ELSE <<s>> \o delegation_chain(delegate(s, task_type), task_type)

\* The number of times the functions of a chain gather the clients' answers:
\* each gathering calls send_prompt once on every client.
fan_outs(chain) == Cardinality({k \in 1..Len(chain) : gathers(chain[k])})

\* -------------------------------------------------------------------- cache

\* A lookup that takes the time to live for milliseconds.
CacheGetMillis(entries, key, time) ==
    IF entries[key] # <<>> /\ time * 1000 < entries[key][1].inserted_at * 1000 + CacheTtlSecs
    THEN <<entries[key][1].value>>
    ELSE <<>>

\* A lookup that still finds an entry at the instant its time to live ends.
CacheGetInclusive(entries, key, time) ==
    IF entries[key] # <<>> /\ time <= entries[key][1].inserted_at + CacheTtlSecs
    THEN <<entries[key][1].value>>
    ELSE <<>>

\* moka::future::Cache::get under time_to_live: an entry is absent once
\* CacheTtlSecs have passed since it was inserted.
CacheGet(entries, key, time) ==
    IF entries[key] # <<>> /\ time < entries[key][1].inserted_at + CacheTtlSecs
    THEN <<entries[key][1].value>>
    ELSE <<>>

\* The keys a lookup at `time` finds.
LiveKeys(entries, time) == {k \in DOMAIN entries : CacheGet(entries, k, time) # <<>>}

\* An insert that keeps the entry a key already has (first writer wins).
CacheInsertIfAbsent(entries, key, value, time) ==
    IF CacheGet(entries, key, time) # <<>>
    THEN {entries}
    ELSE {[entries EXCEPT ![key] = <<[value |-> value, inserted_at |-> time]>>]}

\* moka::future::Cache::insert under max_capacity: the entry replaces the
\* key's old one; over capacity the cache's policy drops one entry, the new
\* one included.  The set of caches the insert may leave.
CacheInsert(entries, key, value, time) ==
    LET put == [entries EXCEPT ![key] = <<[value |-> value, inserted_at |-> time]>>] IN
    IF Cardinality(LiveKeys(put, time)) <= CacheCapacity
    THEN {put}
    ELSE {[put EXCEPT ![victim] = <<>>] : victim \in LiveKeys(put, time)}

\* ------------------------------------------------------------------- inputs

\* Client names: one with a capability factor and a price of its own, one
\* without.
ModelNames == {"gpt-4", "llama"}

\* The client lists an orchestrator is constructed with.
ClientLists == UNION {[1..n -> ModelNames] : n \in 0..MaxClients}

PromptCode == <<"f","i","x"," ","c","o","d","e">>
PromptPoem == <<"a"," ","p","o","e","m">>
PromptExplain == <<"E","x","p","l","a","i","n">>
PromptMath == <<"m","a","t","h">>
PromptHi == <<"h","i">>

\* The prompts queried: one of each task type.
Prompts == {PromptCode, PromptPoem, PromptExplain, PromptMath, PromptHi}

\* Two answers that differ in every term of calculate_confidence and
\* score_response: length, final punctuation, words shared with the prompts.
ResponsePoem == <<"a"," ","p","o","e","m",":","\n","x","y",".">>
ResponseFenced == <<"x",":","\n",Backtick,Backtick,Backtick>>

\* What a send_prompt call may end with: a quick answer, a slow answer, an
\* error; latencies are the milliseconds measured around the call.
Outcomes ==
    {[ok |-> TRUE, text |-> ResponsePoem, latency |-> 200],
     [ok |-> TRUE, text |-> ResponseFenced, latency |-> 1000],
     [ok |-> FALSE, text |-> <<>>, latency |-> 200]}

\* The tasks that may call query at the same time.
Callers == {1, 2}

\* --------------------------------------------------------------------- state

VARIABLES
    clients,    \* AiOrchestrator.clients: the clients' names, in order
    strategy,   \* AiOrchestrator.strategy
    metrics,    \* AiOrchestrator.metrics
    cache,      \* AiOrchestrator.cache: prompt -> Option<entry>
    now,        \* the clock, in seconds
    hung,       \* the clients whose send_prompt never completes
    query,      \* per caller: the query call in progress
    issued,     \* number of query calls started
    stored      \* history: per prompt, the last response query built and
                \* cached for it, when, and how many lookups it has served
VARIABLES
    retry,      \* a call of utils::execute_with_retry: its argument, its
                \* locals, where it is, and history (the outcomes of op so
                \* far, the delays slept so far, in milliseconds)
    parallel,   \* a call of the free function execute_parallel (lib.rs)
    session,    \* a ChatSession and the call in progress on it
    counters,   \* a shared ClientMetrics and the tasks recording into it
    sse,        \* an SseStream over a byte stream
    scoring     \* one application of the classifier and the scoring helpers

\* The state of the orchestrator and of its callers.
orchestrator_vars == <<clients, strategy, metrics, cache, now, hung, query, issued, stored>>

\* The state of the library's other components.
library_vars == <<retry, parallel, session, counters, sse, scoring>>

vars == <<orchestrator_vars, library_vars>>

\* A caller outside query.  futures[i] is the output of client i's future
\* once ready; delegation is the chain of execute_* functions entered;
\* sent[i] counts the send_prompt calls made on client i;
\* prior is history: the response stored for the prompt less than
\* CacheTtlSecs before the lookup, if any.
IdleQuery ==
    [pc |-> "idle", prompt |-> <<>>, task_type |-> "", selected_strategy |-> "",
     futures |-> <<>>, results |-> <<>>, response |-> <<>>, from_cache |-> FALSE,
     sent |-> <<>>, prior |-> <<>>, delegation |-> <<>>]

\* ClientMetrics::new
NewMetrics ==
    [requests_total |-> 0, requests_successful |-> 0, requests_failed |-> 0,
     total_latency_ms |-> 0, total_tokens_used |-> 0]

\* ClientMetrics::record_request(success, latency_ms, Some(tokens))
record_request(m, success, latency_ms, tokens) ==
    [requests_total |-> m.requests_total + 1,
     requests_successful |-> m.requests_successful + (IF success THEN 1 ELSE 0),
     requests_failed |-> m.requests_failed + (IF success THEN 0 ELSE 1),
     total_latency_ms |-> m.total_latency_ms + latency_ms,
     total_tokens_used |-> m.total_tokens_used + tokens]

\* No call of execute_with_retry.
NoRetry ==
    [pc |-> "none", retries |-> 0, attempt |-> 0, last_error |-> <<>>, result |-> <<>>,
     outcomes |-> <<>>, sleeps |-> <<>>]

\* The other components, not in use.
NoCall == [pc |-> "none"]

LibraryIdle ==
    /\ retry = NoRetry
    /\ parallel = NoCall
    /\ session = NoCall
    /\ counters = NoCall
    /\ sse = NoCall
    /\ scoring = NoCall

\* AiOrchestrator::new for one client list: strategy Adaptive, fresh metrics,
\* an empty cache.
New(list) ==
    /\ clients = list
    /\ strategy = "Adaptive"
    /\ metrics = NewMetrics
    /\ cache = [p \in Prompts |-> <<>>]
    /\ now = 0
    /\ query = [c \in Callers |-> IdleQuery]
    /\ issued = 0
    /\ stored = [p \in Prompts |-> <<>>]

\* Every client answers in the end.
Init ==
    /\ \E list \in ClientLists : New(list)
    /\ hung = {}
    /\ LibraryIdle

\* AiOrchestrator::with_strategy.  It takes the orchestrator by value, so no
\* query borrows it.
WithStrategy(s) ==
    /\ \A c \in Callers : query[c].pc = "idle"
    /\ strategy' = s
    /\ UNCHANGED <<clients, metrics, cache, now, hung, library_vars, query, issued, stored>>

\* AiOrchestrator::query up to its first suspension in join_all: the cache
\* lookup and, on a miss, the classification, the strategy selection and the
\* first poll of join_all, which calls send_prompt on every client.
Query(c, prompt) ==
    /\ query[c].pc = "idle"
    /\ issued' = issued + 1
    /\ LET cached == CacheGet(cache, prompt, now)
           prior == IF stored[prompt] # <<>> /\ now < stored[prompt][1].at + CacheTtlSecs
                    THEN <<stored[prompt][1].response>> ELSE <<>>
           entered(task_type, selected_strategy, delegation) ==
               [IdleQuery EXCEPT !.pc = "join_all", !.prompt = prompt,
                                 !.task_type = task_type,
                                 !.selected_strategy = selected_strategy,
                                 !.futures = [i \in 1..Len(clients) |-> <<>>],
                                 !.delegation = delegation,
                                 !.sent = [i \in 1..Len(clients) |-> fan_outs(delegation)],
                                 !.prior = prior]
           selected(task_type, selected_strategy) ==
               entered(task_type, selected_strategy,
                       delegation_chain(selected_strategy, task_type))
           analyzed(task_type) == selected(task_type, select_strategy(strategy, task_type))
       IN /\ query' = [query EXCEPT ![c] =
            IF cached # <<>>
            THEN [IdleQuery EXCEPT !.pc = "returned", !.prompt = prompt,
                                   !.response = <<Ok(cached[1])>>, !.from_cache = TRUE,
                                   !.sent = [i \in 1..Len(clients) |-> 0],
                                   !.prior = prior]
            ELSE analyzed(analyze_prompt(prompt))]
          /\ stored' = IF cached # <<>> /\ stored[prompt] # <<>>
                       THEN [stored EXCEPT ![prompt][1].hits = @ + 1]
                       ELSE stored
    /\ UNCHANGED <<clients, strategy, metrics, cache, now, hung, library_vars>>

\* A query call, while the behaviour has calls left.
QueryStart(c, prompt) == issued < MaxQueries /\ Query(c, prompt)

\* Client i's send_prompt completes for caller c with outcome o: the future
\* built in gather_responses / execute_parallel becomes ready with
\* (client.name(), result, latency).
Respond(c, i, o) ==
    /\ query[c].pc = "join_all"
    /\ i \in 1..Len(clients)
    /\ i \notin hung
    /\ query[c].futures[i] = <<>>
    /\ query' = [query EXCEPT ![c].futures[i] =
                    <<ResultTuple(clients[i], o.ok, o.text, o.latency)>>]
    /\ UNCHANGED <<clients, strategy, metrics, cache, now, hung, library_vars, issued, stored>>

\* A join that is ready as soon as one future is.
JoinAllReadyAny(futures) == \E i \in 1..Len(futures) : futures[i] # <<>>

\* A join that is ready at the first success (a select over the futures).
JoinAllReadyFirstSuccess(futures) ==
    \E i \in 1..Len(futures) : futures[i] # <<>> /\ futures[i][1].ok

\* futures::future::join_all is ready when every future is.
JoinAllReady(futures) == \A i \in 1..Len(futures) : futures[i] # <<>>

\* What join_all yields: the outputs of the ready futures, in the order of
\* the futures.
RECURSIVE JoinAllOutput(_)
JoinAllOutput(futures) ==
    IF futures = <<>> THEN <<>>
    ELSE LET rest == JoinAllOutput(SubSeq(futures, 1, Len(futures) - 1))
         IN rest \o futures[Len(futures)]

\* AiOrchestrator::query from the completion of join_all on: the strategy's
\* fusion and, unless it failed (the ? operator), record_request, the cache
\* insert and the return.  The time query took is that of its slowest client.
Fuse(c) ==
    /\ query[c].pc = "join_all"
    /\ JoinAllReady(query[c].futures)
    /\ LET q == query[c]
           Finish(results, response) ==
              /\ query' = [query EXCEPT ![c].pc = "returned", ![c].results = results,
                                        ![c].response = <<response>>]
              /\ IF response.ok
                 THEN /\ metrics' = record_request(metrics, TRUE, MaxLatency(results),
                                                   response.val[1].metrics.tokens_saved)
                      /\ cache' \in CacheInsert(cache, q.prompt, response.val[1], now)
                      /\ stored' = [stored EXCEPT ![q.prompt] =
                                        <<[response |-> response.val[1], at |-> now,
                                           hits |-> 0]>>]
                 ELSE UNCHANGED <<metrics, cache, stored>>
           Fused(results) ==
              Finish(results, Execute(q.selected_strategy, results, q.prompt, q.task_type))
       IN Fused(JoinAllOutput(q.futures))
    /\ UNCHANGED <<clients, strategy, now, hung, library_vars, issued>>

\* The caller takes the result of query.
Return(c) ==
    /\ query[c].pc = "returned"
    /\ query' = [query EXCEPT ![c] = IdleQuery]
    /\ UNCHANGED <<clients, strategy, metrics, cache, now, hung, library_vars, issued, stored>>

\* Time passes.
Tick ==
    /\ now + TickSecs <= MaxTime
    /\ now' = now + TickSecs
    /\ UNCHANGED <<clients, strategy, metrics, cache, hung, library_vars, query, issued, stored>>

\* One caller at a time, on an orchestrator with the default strategy.
Next ==
    \/ \E p \in Prompts : QueryStart(1, p)
    \/ \E i \in 1..MaxClients, o \in Outcomes : Respond(1, i, o)
    \/ Fuse(1)
    \/ Return(1)
    \/ Tick

Spec == Init /\ [][Next]_vars

\* AiOrchestrator::new(clients).with_strategy(s) and its queries, with at
\* most one client.
StrategyInit ==
    /\ \E list \in ClientLists : Len(list) <= 1 /\ New(list)
    /\ hung = {}
    /\ LibraryIdle

StrategyNext ==
    \/ \E s \in Strategies : WithStrategy(s)
    \/ \E p \in Prompts : QueryStart(1, p)
    \/ \E i \in 1..MaxClients, o \in Outcomes : Respond(1, i, o)
    \/ Fuse(1)
    \/ Return(1)

StrategySpec == StrategyInit /\ [][StrategyNext]_vars

\* Fuse(c) is enabled: only a Fuse step ends it.
FuseEnabled(c) == query[c].pc = "join_all" /\ JoinAllReady(query[c].futures)

\* Clients that may never answer.
LiveInit ==
    /\ \E list \in ClientLists : New(list)
    /\ hung \in SUBSET (1..Len(clients))
    /\ LibraryIdle

LiveNext ==
    \/ \E p \in Prompts : QueryStart(1, p)
    \/ \E i \in 1..MaxClients, o \in Outcomes : Respond(1, i, o)
    \/ Fuse(1)
    \/ Return(1)

\* A client that is not hung answers in the end, and the executor polls a
\* query whose futures are all ready: weak fairness of Respond and of Fuse.
\* That of Fuse is written with its enabling condition, which only a Fuse
\* step ends: WF_vars(Fuse(1)) is []<>~ENABLED <<Fuse(1)>>_vars here.
LiveSpec ==
    /\ LiveInit
    /\ [][LiveNext]_vars
    /\ \A i \in 1..MaxClients : WF_vars(\E o \in Outcomes : Respond(1, i, o))
    /\ []<>~FuseEnabled(1)

\* A query call of the expiry specification.
Requery(c, prompt) == issued < MaxLookups /\ Query(c, prompt)

\* Repeated queries on an orchestrator with at most one client, while the
\* clock runs up to the time to live of the first entries.
ExpiryInit ==
    /\ \E list \in ClientLists : Len(list) <= 1 /\ New(list)
    /\ hung = {}
    /\ LibraryIdle

ExpiryNext ==
    \/ \E p \in Prompts : Requery(1, p)
    \/ \E i \in 1..MaxClients, o \in Outcomes : Respond(1, i, o)
    \/ Fuse(1)
    \/ Return(1)
    \/ Tick

ExpirySpec == ExpiryInit /\ [][ExpiryNext]_vars

\* Two tasks calling query on one orchestrator (query takes &self): their
\* lookups, their clients' answers and their cache inserts interleave.
RaceInit ==
    /\ \E list \in ClientLists : New(list)
    /\ hung = {}
    /\ LibraryIdle

RaceNext ==
    \/ \E c \in Callers, p \in Prompts : QueryStart(c, p)
    \/ \E c \in Callers, i \in 1..MaxClients, o \in Outcomes : Respond(c, i, o)
    \/ \E c \in Callers : Fuse(c)
    \/ \E c \in Callers : Return(c)

RaceSpec == RaceInit /\ [][RaceNext]_vars

\* ------------------------------------------------------------------- retry

\* What one op().await may yield.
RetryOutcomes == {Ok("value"), Err("network"), Err("api")}

\* A loop that sleeps after every failed attempt.
sleeps_after_every_attempt(attempt, retries) == TRUE

\* execute_with_retry: if attempt < retries
sleeps_after(attempt, retries) == attempt < retries

\* execute_with_retry: Duration::from_millis(1000 * (attempt + 1) as u64)
retry_delay_ms(attempt) == 1000 * (attempt + 1)

\* The end of one iteration of `for attempt in 0..=retries`: the next
\* attempt, or after the last one Err(last_error.unwrap_or_else(..)).
NextIteration(r) ==
    IF r.attempt + 1 <= r.retries
    THEN [r EXCEPT !.attempt = @ + 1, !.pc = "op"]
    ELSE [r EXCEPT !.pc = "done",
                   !.result = IF r.last_error = <<>>
                              THEN <<Err("No retry attempts were made")>>
                              ELSE <<Err(r.last_error[1])>>]

\* op().await completes with outcome o: Ok returns at once, Err is kept in
\* last_error and, unless this was the last attempt, the function sleeps.
Attempt(o) ==
    /\ retry.pc = "op"
    /\ LET called == [retry EXCEPT !.outcomes = Append(@, o)] IN
       IF o.ok
       THEN retry' = [called EXCEPT !.pc = "done", !.result = <<o>>]
       ELSE LET failed == [called EXCEPT !.last_error = <<o.err>>] IN
            IF sleeps_after(failed.attempt, failed.retries)
            THEN retry' = [failed EXCEPT !.pc = "sleep",
                                         !.sleeps = Append(@, retry_delay_ms(failed.attempt))]
            ELSE retry' = NextIteration(failed)
    /\ UNCHANGED <<orchestrator_vars, parallel, session, counters, sse, scoring>>

\* tokio::time::sleep completes.
SleepElapsed ==
    /\ retry.pc = "sleep"
    /\ retry' = NextIteration(retry)
    /\ UNCHANGED <<orchestrator_vars, parallel, session, counters, sse, scoring>>

\* execute_with_retry(retries, op) is called, for each retries up to
\* MaxRetries.
RetryInit ==
    /\ New(<<>>)
    /\ hung = {}
    /\ \E n \in 0..MaxRetries : retry = [NoRetry EXCEPT !.pc = "op", !.retries = n]
    /\ parallel = NoCall /\ session = NoCall /\ counters = NoCall
    /\ sse = NoCall /\ scoring = NoCall

RetryNext ==
    \/ \E o \in RetryOutcomes : Attempt(o)
    \/ SleepElapsed

RetrySpec == RetryInit /\ [][RetryNext]_vars

\* ------------------------------------------------- execute_parallel (lib.rs)

\* The client lists execute_parallel is called with.
ParallelClientLists == UNION {[1..n -> ModelNames] : n \in 0..MaxParallelClients}

\* What client.send_prompt(&prompt).await may yield.
SendOutcomes == {Ok("response"), Err("network")}

\* An order that follows the completion of the futures.
completion_order(futures, completed) == completed

\* future::join_all yields the outputs in the order of the futures it was
\* given, whatever order they completed in.
join_all_order(futures, completed) == [i \in 1..Len(futures) |-> i]

\* One future of execute_parallel completes: (name, result).
ParallelRespond(i, o) ==
    /\ parallel.pc = "join_all"
    /\ i \in 1..Len(parallel.clients)
    /\ parallel.futures[i] = <<>>
    /\ parallel' = [parallel EXCEPT
                        !.futures[i] = <<[name |-> parallel.clients[i], result |-> o]>>,
                        !.completed = Append(@, i)]
    /\ UNCHANGED <<orchestrator_vars, retry, session, counters, sse, scoring>>

\* future::join_all(futures).await completes and execute_parallel returns.
ParallelJoin ==
    /\ parallel.pc = "join_all"
    /\ JoinAllReady(parallel.futures)
    /\ LET order == join_all_order(parallel.futures, parallel.completed) IN
       parallel' = [parallel EXCEPT
                       !.pc = "returned",
                       !.results = [k \in 1..Len(order) |-> parallel.futures[order[k]][1]]]
    /\ UNCHANGED <<orchestrator_vars, retry, session, counters, sse, scoring>>

\* execute_parallel(clients, prompt) is called: one future per client.
ParallelInit ==
    /\ New(<<>>)
    /\ hung = {}
    /\ \E list \in ParallelClientLists :
          parallel = [pc |-> "join_all", clients |-> list,
                      futures |-> [i \in 1..Len(list) |-> <<>>],
                      completed |-> <<>>, results |-> <<>>]
    /\ retry = NoRetry /\ session = NoCall /\ counters = NoCall
    /\ sse = NoCall /\ scoring = NoCall

ParallelNext ==
    \/ \E i \in 1..MaxParallelClients, o \in SendOutcomes : ParallelRespond(i, o)
    \/ ParallelJoin

ParallelSpec == ParallelInit /\ [][ParallelNext]_vars

\* -------------------------------------------------------- ChatSession (lib.rs)

\* Every method records the response it got.
adds_assistant_any_method(method, o) == o.ok

\* The methods that call add_assistant, and when: send and
\* send_with_metadata, on Ok; stream never does.
adds_assistant(method, o) == method # "stream" /\ o.ok

\* An assistant message with the role of a user message.
assistant_as_user(content) == [role |-> "user", content |-> content]

\* Message::system, Message::user, Message::assistant
system(content) == [role |-> "system", content |-> content]
user(content) == [role |-> "user", content |-> content]
assistant(content) == [role |-> "assistant", content |-> content]

\* Conversation::add_user, Conversation::add_assistant
add_user(messages, content) == Append(messages, user(content))
add_assistant(messages, content) == Append(messages, assistant(content))

\* The messages a caller sends.
UserMessages == {"Can you help?", "And now?"}

\* What the client's send_conversation, send_conversation_with_metadata or
\* stream_conversation may yield (for the last, Ok stands for a stream).
SessionOutcomes == {Ok("Sure"), Err("network")}

\* The methods of ChatSession that talk to the client.
SessionMethods == {"send", "send_with_metadata", "stream"}

\* ChatSession::send, send_with_metadata and stream up to the await of the
\* client call: the message is added to the conversation, which is passed to
\* the client.  History: the length of the conversation before the call and
\* the conversation the client was given.
SessionCall(method, message) ==
    /\ session.pc \in {"idle", "returned"}
    /\ session.calls < MaxSessionCalls
    /\ LET messages == add_user(session.conversation, message) IN
       session' = [session EXCEPT
                      !.pc = "awaiting", !.method = method, !.message = message,
                      !.calls = @ + 1,
                      !.before = Len(session.conversation),
                      !.conversation = messages,
                      !.sent = messages,
                      !.result = <<>>, !.chunks = 0]
    /\ UNCHANGED <<orchestrator_vars, retry, parallel, counters, sse, scoring>>

\* The client call completes.  send and send_with_metadata add the response
\* on Ok and return the error on Err (the ? operator); stream returns what
\* the client returned, a stream or an error.
SessionReply(o) ==
    /\ session.pc = "awaiting"
    /\ session' = [session EXCEPT
                      !.result = <<o>>,
                      !.pc = IF session.method = "stream" /\ o.ok
                             THEN "streaming" ELSE "returned",
                      !.conversation =
                          IF adds_assistant(session.method, o)
                          THEN add_assistant(@, o.val[1]) ELSE @]
    /\ UNCHANGED <<orchestrator_vars, retry, parallel, counters, sse, scoring>>

\* The caller takes one chunk from the stream.
StreamChunk ==
    /\ session.pc = "streaming"
    /\ session.chunks < MaxChunks
    /\ session' = [session EXCEPT !.chunks = @ + 1]
    /\ UNCHANGED <<orchestrator_vars, retry, parallel, counters, sse, scoring>>

\* The stream ends and the caller drops it.
StreamEnd ==
    /\ session.pc = "streaming"
    /\ session' = [session EXCEPT !.pc = "returned"]
    /\ UNCHANGED <<orchestrator_vars, retry, parallel, counters, sse, scoring>>

\* ChatSession::new and ChatSession::with_system_message
SessionInit ==
    /\ New(<<>>)
    /\ hung = {}
    /\ \E messages \in {<<>>, <<system("Be brief")>>} :
          session = [pc |-> "idle", conversation |-> messages, method |-> "",
                     message |-> "", calls |-> 0, before |-> 0, sent |-> <<>>,
                     result |-> <<>>, chunks |-> 0]
    /\ retry = NoRetry /\ parallel = NoCall /\ counters = NoCall
    /\ sse = NoCall /\ scoring = NoCall

SessionNext ==
    \/ \E method \in SessionMethods, message \in UserMessages : SessionCall(method, message)
    \/ \E o \in SessionOutcomes : SessionReply(o)
    \/ StreamChunk
    \/ StreamEnd

SessionSpec == SessionInit /\ [][SessionNext]_vars

\* ----------------------------------------------------- ClientMetrics (metrics.rs)

\* The tasks sharing one ClientMetrics (it is Clone over Arc<AtomicU64>).
Recorders == 1..MaxRecorders

\* The arguments of record_request: success, latency_ms, tokens; a success
\* and a failure with tokens, a success and a failure without.
RecordArgs ==
    {[success |-> TRUE, latency_ms |-> 50, tokens |-> <<75>>],
     [success |-> TRUE, latency_ms |-> 100, tokens |-> <<>>],
     [success |-> FALSE, latency_ms |-> 50, tokens |-> <<>>],
     [success |-> FALSE, latency_ms |-> 100, tokens |-> <<75>>]}

\* A store of the operand in place of an addition.
fetch_store(value, n) == n

\* AtomicU64::fetch_add: one indivisible read-modify-write.  (The counters
\* stay far below 2^64, where fetch_add wraps.)
fetch_add(value, n) == value + n

\* ClientMetrics::get_stats, the fields computed from the request counters;
\* success_rate is a percentage, an exact rational here.
get_stats(c) ==
    LET total == c.requests_total IN
    [requests_total |-> total,
     requests_successful |-> c.requests_successful,
     requests_failed |-> c.requests_failed,
     success_rate |-> IF total > 0
                      THEN RatMul(Rat(c.requests_successful, total), <<100, 1>>)
                      ELSE <<0, 1>>,
     average_latency_ms |-> IF total > 0 THEN c.total_latency_ms \div total ELSE 0,
     total_tokens_used |-> c.total_tokens_used]

\* Task t calls record_request(args).
RecordStart(t, args) ==
    /\ counters.tasks[t].pc = "idle"
    /\ counters' = [counters EXCEPT !.tasks[t] = [pc |-> "requests_total", args |-> <<args>>]]
    /\ UNCHANGED <<orchestrator_vars, retry, parallel, session, sse, scoring>>

\* Task t executes the next fetch_add of its record_request; the call
\* returns after the last one.
RecordStep(t) ==
    LET task == counters.tasks[t]
        args == task.args[1]
    IN
    /\ task.pc \notin {"idle", "done"}
    /\ counters' =
         CASE task.pc = "requests_total" ->
                [counters EXCEPT !.requests_total = fetch_add(@, 1),
                                 !.tasks[t].pc = "total_latency_ms"]
           [] task.pc = "total_latency_ms" ->
                [counters EXCEPT !.total_latency_ms = fetch_add(@, args.latency_ms),
                                 !.tasks[t].pc = "outcome"]
           [] task.pc = "outcome" /\ args.success ->
                [counters EXCEPT !.requests_successful = fetch_add(@, 1),
                                 !.tasks[t].pc = IF args.tokens = <<>> THEN "done"
                                                 ELSE "total_tokens_used"]
           [] task.pc = "outcome" /\ ~args.success ->
                [counters EXCEPT !.requests_failed = fetch_add(@, 1),
                                 !.tasks[t].pc = IF args.tokens = <<>> THEN "done"
                                                 ELSE "total_tokens_used"]
           [] task.pc = "total_tokens_used" ->
                [counters EXCEPT !.total_tokens_used = fetch_add(@, args.tokens[1]),
                                 !.tasks[t].pc = "done"]
    /\ UNCHANGED <<orchestrator_vars, retry, parallel, session, sse, scoring>>

\* A task calls get_stats.  The snapshot is kept with the tasks whose
\* record_request had returned and with whether every record_request called
\* so far had, in which case the loads of get_stats see one state whatever
\* their order.
GetStats ==
    /\ counters.snapshot = <<>>
    /\ counters' = [counters EXCEPT !.snapshot =
            <<[stats |-> get_stats(counters),
               recorded |-> {t \in Recorders : counters.tasks[t].pc = "done"},
               after_all |-> \A t \in Recorders : counters.tasks[t].pc \in {"idle", "done"}]>>]
    /\ UNCHANGED <<orchestrator_vars, retry, parallel, session, sse, scoring>>

\* ClientMetrics::new, shared by the tasks.
MetricsInit ==
    /\ New(<<>>)
    /\ hung = {}
    /\ counters = [pc |-> "shared",
                   requests_total |-> 0, requests_successful |-> 0, requests_failed |-> 0,
                   total_latency_ms |-> 0, total_tokens_used |-> 0,
                   tasks |-> [t \in Recorders |-> [pc |-> "idle", args |-> <<>>]],
                   snapshot |-> <<>>]
    /\ retry = NoRetry /\ parallel = NoCall /\ session = NoCall
    /\ sse = NoCall /\ scoring = NoCall

MetricsNext ==
    \/ \E t \in Recorders, args \in RecordArgs : RecordStart(t, args)
    \/ \E t \in Recorders : RecordStep(t)
    \/ GetStats

MetricsSpec == MetricsInit /\ [][MetricsNext]_vars

\* ---------------------------------------------- classifier and scoring inputs

\* char::to_uppercase on ASCII, to write prompts in other casings.
UpperChar(ch) ==
    IF \E i \in 1..26 : LowerChars[i] = ch
    THEN UpperChars[CHOOSE i \in 1..26 : LowerChars[i] = ch]
    ELSE ch

\* The casings a prompt is written in.
Casings == {"lower", "upper", "capitalized"}

WithCasing(s, casing) ==
    CASE casing = "upper" -> [i \in 1..Len(s) |-> UpperChar(s[i])]
      [] casing = "capitalized" -> [i \in 1..Len(s) |-> IF i = 1 THEN UpperChar(s[i]) ELSE s[i]]
      [] OTHER -> s

\* Prompts in lower case: with keywords of several categories, of one, of
\* none.
BaseCreativeCode ==
    <<"w","r","i","t","e"," ","c","r","e","a","t","i","v","e"," ","c","o","d","e"," ","f","o","r"," ","a"," ","p","o","e","m">>
BaseStoryExplain ==
    <<"e","x","p","l","a","i","n"," ","t","h","e"," ","s","t","o","r","y">>
BaseAnalyzeCalculate ==
    <<"c","a","l","c","u","l","a","t","e"," ","a","n","d"," ","a","n","a","l","y","z","e">>
BaseImplementMath ==
    <<"i","m","p","l","e","m","e","n","t"," ","m","a","t","h">>
BaseMath ==
    <<"m","a","t","h">>
BaseFunction ==
    <<"f","u","n","c","t","i","o","n">>
BaseHi ==
    <<"h","i">>
BaseFixCode ==
    <<"f","i","x"," ","c","o","d","e">>

BasePrompts ==
    {BaseCreativeCode, BaseStoryExplain, BaseAnalyzeCalculate, BaseImplementMath,
     BaseMath, BaseFunction, BaseHi, BaseFixCode}

\* Responses: of 5 and of 30 times the length of the prompt "hi" times 10
\* over 10, that is 10 and 60 bytes, of 11 bytes, with a code fence.
ResponseTen == <<"a"," ","p","o","e","m",":","\n","x",".">>
ResponseSixty == [i \in 1..60 |-> "x"]
ResponseFencedSentence == <<Backtick,Backtick,Backtick,"x",Backtick,Backtick,Backtick,".">>

ScoringResponses ==
    {ResponseTen, ResponsePoem, ResponseSixty, ResponseFenced, ResponseFencedSentence}

\* analyze_prompt is applied to the prompt.
AnalyzePrompt ==
    /\ scoring.pc = "input"
    /\ scoring.task_type = <<>>
    /\ scoring' = [scoring EXCEPT !.task_type = <<analyze_prompt(scoring.prompt)>>]
    /\ UNCHANGED <<orchestrator_vars, retry, parallel, session, counters, sse>>

\* calculate_confidence is applied to the response and the prompt.
CalculateConfidence ==
    /\ scoring.pc = "input"
    /\ scoring.confidence = <<>>
    /\ scoring' = [scoring EXCEPT
                      !.confidence = <<calculate_confidence(scoring.response, scoring.prompt)>>]
    /\ UNCHANGED <<orchestrator_vars, retry, parallel, session, counters, sse>>

\* A prompt, in one of its casings, and a response.
ScoringInit ==
    /\ New(<<>>)
    /\ hung = {}
    /\ \E base \in BasePrompts, casing \in Casings, response \in ScoringResponses :
          scoring = [pc |-> "input", base |-> base, casing |-> casing,
                     prompt |-> WithCasing(base, casing), response |-> response,
                     task_type |-> <<>>, confidence |-> <<>>]
    /\ retry = NoRetry /\ parallel = NoCall /\ session = NoCall
    /\ counters = NoCall /\ sse = NoCall

ScoringNext ==
    \/ AnalyzePrompt
    \/ CalculateConfidence

ScoringSpec == ScoringInit /\ [][ScoringNext]_vars

\* ---------------------------------------------------------------- SseStream

\* The blocks of a byte stream are at most this many.
MaxBlocks == 3

\* struct SseEvent
SseEvent(event, data, id, retry_ms) ==
    [event |-> event, data |-> data, id |-> id, retry |-> retry_ms]

\* str::lines: the text between line feeds, a carriage return before a line
\* feed dropped, no last line for what follows the last line feed when that
\* is empty.
lines(s) ==
    LET RECURSIVE LinesFrom(_, _)
        LinesFrom(i, line) ==
            IF i > Len(s)
            THEN IF line = <<>> THEN <<>> ELSE <<line>>
            ELSE IF s[i] = "\n"
                 THEN <<IF line # <<>> /\ line[Len(line)] = "\r"
                        THEN SubSeq(line, 1, Len(line) - 1) ELSE line>>
                      \o LinesFrom(i + 1, <<>>)
                 ELSE LinesFrom(i + 1, Append(line, s[i]))
    IN LinesFrom(1, <<>>)

\* str::split_once(':'): the text before and after the first colon.
split_once(line) ==
    LET colons == {i \in 1..Len(line) : line[i] = ":"}
    IN IF colons = {} THEN <<>>
       ELSE LET i == CHOOSE j \in colons : \A k \in colons : j <= k
            IN <<[key |-> SubSeq(line, 1, i - 1), value |-> SubSeq(line, i + 1, Len(line))]>>

\* str::trim_start
RECURSIVE trim_start(_)
trim_start(s) == IF s # <<>> /\ IsWhitespace(s[1]) THEN trim_start(Tail(s)) ELSE s

\* [String]::join("\n")
RECURSIVE join(_)
join(values) ==
    IF values = <<>> THEN <<>>
    ELSE IF Len(values) = 1 THEN values[1]
    ELSE values[1] \o <<"\n">> \o join(Tail(values))

\* str::parse::<u64>().ok(): an optional '+' and decimal digits.
parse_u64(value) ==
    LET DigitChars == <<"0", "1", "2", "3", "4", "5", "6", "7", "8", "9">>
        digits == IF value # <<>> /\ value[1] = "+" THEN Tail(value) ELSE value
        RECURSIVE DigitsValue(_, _)
        DigitsValue(s, acc) ==
            IF s = <<>> THEN acc
            ELSE LET d == CHOOSE k \in 1..10 : DigitChars[k] = s[1]
                 IN DigitsValue(Tail(s), acc * 10 + (d - 1))
    IN IF digits # <<>> /\ \A i \in 1..Len(digits) : \E k \in 1..10 : DigitChars[k] = digits[i]
       THEN <<DigitsValue(digits, 0)>>
       ELSE <<>>

\* The loop over the lines in SseStream::parse_event.
RECURSIVE ParseLines(_, _)
ParseLines(ls, acc) ==
    IF ls = <<>> THEN acc
    ELSE LET line == ls[1]
             kv == split_once(line)
             value == trim_start(kv[1].value)
             next ==
                 IF line = <<>> \/ kv = <<>> THEN acc
                 ELSE CASE kv[1].key = <<"e","v","e","n","t">> ->
                              [acc EXCEPT !.event = <<value>>]
                        [] kv[1].key = <<"d","a","t","a">> ->
                              [acc EXCEPT !.event_data = Append(@, value)]
                        [] kv[1].key = <<"i","d">> ->
                              [acc EXCEPT !.id = <<value>>]
                        [] kv[1].key = <<"r","e","t","r","y">> ->
                              [acc EXCEPT !.retry = parse_u64(value)]
                        [] OTHER -> acc
         IN ParseLines(Tail(ls), next)

\* SseStream::parse_event
parse_event(data) ==
    LET acc == ParseLines(lines(data),
                          [event |-> <<>>, event_data |-> <<>>, id |-> <<>>, retry |-> <<>>])
    IN IF acc.event_data # <<>>
       THEN <<SseEvent(acc.event, join(acc.event_data), acc.id, acc.retry)>>
       ELSE <<>>

\* buffer.windows(2).position(|w| w == b"\n\n"), counted from 1.
position(buffer) ==
    LET found == {i \in 1..(Len(buffer) - 1) : buffer[i] = "\n" /\ buffer[i + 1] = "\n"}
    IN IF found = {} THEN <<>>
       ELSE <<CHOOSE i \in found : \A k \in found : i <= k>>

\* The blocks a server sends: two data blocks (the second with a space after
\* the colon), a comment and a block with an event line only.
BlockDataA == <<"d","a","t","a",":","a","\n","\n">>
BlockDataB == <<"d","a","t","a",":"," ","b","\n","\n">>
BlockComment == <<":","c","\n","\n">>
BlockEventOnly == <<"e","v","e","n","t",":","e","\n","\n">>

\* The byte streams: up to MaxBlocks blocks, each ended by a blank line.
BlockLists ==
    UNION {[1..n -> {BlockDataA, BlockDataB, BlockComment, BlockEventOnly}] :
              n \in 0..MaxBlocks}

\* SseStream::poll_next, the head of the loop: a block in the buffer is split
\* off and parsed; an event is returned (the next call starts here again),
\* otherwise the inner stream is polled.
ParseBuffer ==
    /\ sse.pc = "parse"
    /\ LET pos == position(sse.buffer)
       IN IF pos # <<>>
          THEN LET event_data == SubSeq(sse.buffer, 1, pos[1] + 1)
                   rest == SubSeq(sse.buffer, pos[1] + 2, Len(sse.buffer))
                   event == parse_event(event_data)
               IN IF event # <<>>
                  THEN sse' = [sse EXCEPT !.buffer = rest,
                                          !.emitted = Append(@, event[1])]
                  ELSE sse' = [sse EXCEPT !.buffer = rest, !.pc = "read"]
          ELSE sse' = [sse EXCEPT !.pc = "read"]
    /\ UNCHANGED <<orchestrator_vars, retry, parallel, session, counters, scoring>>

\* The inner stream yields the next n bytes: Poll::Ready(Some(Ok(bytes))).
InnerChunk(n) ==
    /\ sse.pc = "read"
    /\ n \in 1..Len(sse.wire)
    /\ sse' = [sse EXCEPT !.buffer = @ \o SubSeq(sse.wire, 1, n),
                          !.wire = SubSeq(@, n + 1, Len(@)),
                          !.pc = "parse"]
    /\ UNCHANGED <<orchestrator_vars, retry, parallel, session, counters, scoring>>

\* The inner stream has nothing yet: Poll::Pending is returned, and the
\* stream is polled again later.
InnerPending ==
    /\ sse.pc = "read"
    /\ sse.wire # <<>>
    /\ sse' = [sse EXCEPT !.pc = "parse"]
    /\ UNCHANGED <<orchestrator_vars, retry, parallel, session, counters, scoring>>

\* The inner stream has ended, Poll::Ready(None): what is left in the buffer
\* is parsed as one event and returned, or None is.  Polled once more after
\* an event, the ended inner stream yields None again.
InnerEnd ==
    /\ sse.pc = "read"
    /\ sse.wire = <<>>
    /\ IF sse.buffer # <<>>
       THEN LET event == parse_event(sse.buffer)
            IN IF event # <<>>
               THEN sse' = [sse EXCEPT !.buffer = <<>>, !.pc = "parse",
                                       !.emitted = Append(@, event[1])]
               ELSE sse' = [sse EXCEPT !.buffer = <<>>, !.pc = "ended"]
       ELSE sse' = [sse EXCEPT !.pc = "ended"]
    /\ UNCHANGED <<orchestrator_vars, retry, parallel, session, counters, scoring>>

\* SseStream::new on a byte stream of blocks that yields no error; wire is
\* what the inner stream has still to yield, emitted the events returned.
SseInit ==
    /\ New(<<>>)
    /\ hung = {}
    /\ \E blocks \in BlockLists :
          LET RECURSIVE Concat(_)
              Concat(seqs) == IF seqs = <<>> THEN <<>> ELSE seqs[1] \o Concat(Tail(seqs))
          IN sse = [pc |-> "parse", blocks |-> blocks, wire |-> Concat(blocks),
                    buffer |-> <<>>, emitted |-> <<>>]
    /\ retry = NoRetry /\ parallel = NoCall /\ session = NoCall
    /\ counters = NoCall /\ scoring = NoCall

SseNext ==
    \/ ParseBuffer
    \/ \E n \in 1..(MaxBlocks * Len(BlockEventOnly)) : InnerChunk(n)
    \/ InnerPending
    \/ InnerEnd

SseSpec == SseInit /\ [][SseNext]_vars

\* ------------------------------------------------------------------- claims

\* Caller c's query has returned.
Returned(c) == query[c].pc = "returned"

\* Caller c's query has returned from a cache miss: it dispatched and fused.
Fresh(c) == Returned(c) /\ ~query[c].from_cache

\* The successful results among those join_all yielded.
Successes(results) == {i \in 1..Len(results) : results[i].ok}

\* Contribution k is built from result r.
BuiltFrom(k, r) == k.model = r.model /\ k.response = r.text /\ k.latency_ms = r.latency

\* C1: the strategy set with with_strategy is the strategy a cache-miss
\* query executes, whatever task type the classifier gives the prompt.
C1_OverrideIsExecuted ==
    \A c \in Callers : Fresh(c) => query[c].selected_strategy = strategy

\* C2: when every dispatched client fails query returns an error; every
\* Ok(FusedResponse) of query has a non-empty contributions list.
C2_AllFailedIsError ==
    \A c \in Callers :
        /\ Fresh(c) /\ Successes(query[c].results) = {} => ~query[c].response[1].ok
        /\ Returned(c) /\ query[c].response[1].ok
               => query[c].response[1].val[1].contributions # <<>>

\* C3: a query in which all clients fail leaves no entry for its prompt in
\* the cache.
C3_FailureNotCached ==
    \A c \in Callers :
        Fresh(c) /\ Successes(query[c].results) = {}
            => CacheGet(cache, query[c].prompt, now) = <<>>

\* C4: a query for a prompt whose response was stored less than CacheTtlSecs
\* before the lookup calls send_prompt on no client and returns the stored
\* response.
C4_HitShortCircuits ==
    \A c \in Callers :
        Returned(c) /\ query[c].prior # <<>>
            => /\ query[c].from_cache
               /\ \A i \in 1..Len(clients) : query[c].sent[i] = 0
               /\ query[c].futures = <<>>
               /\ query[c].response[1].ok
               /\ query[c].response[1].val[1].content = query[c].prior[1].content
               /\ query[c].response[1].val[1].contributions = query[c].prior[1].contributions

\* C4's case: a second query for a prompt has returned its stored response,
\* on an orchestrator with clients, some time after the response was stored.
C4_Witness ==
    /\ Returned(1) /\ query[1].prior # <<>> /\ query[1].from_cache
    /\ clients # <<>>
    /\ stored[query[1].prompt][1].at < now

\* C5: the response of a cache hit has metrics.cache_hit true, that of a
\* fresh fusion has it false.
C5_CacheHitFlag ==
    \A c \in Callers :
        Returned(c) /\ query[c].response[1].ok
            => query[c].response[1].val[1].metrics.cache_hit = query[c].from_cache

\* C6: with an empty client list query returns an error for every prompt.
C6_NoClientsIsError ==
    \A c \in Callers : Returned(c) /\ clients = <<>> => ~query[c].response[1].ok

\* The contributions of an Ok response are as many as the successful
\* results, one built from each.
ContributionsMatch(response, results) ==
    /\ response.ok
    /\ LET contributions == response.val[1].contributions IN
       /\ Len(contributions) = Cardinality(Successes(results))
       /\ \E f \in [1..Len(contributions) -> Successes(results)] :
            /\ \A j, k \in 1..Len(contributions) : j # k => f[j] # f[k]
            /\ \A k \in 1..Len(contributions) : BuiltFrom(contributions[k], results[f[k]])

\* C7: when at least one client succeeds, the contributions of the response
\* are as many as the successful results, one built from each, under the
\* strategy query selected and under each strategy of the enum.
C7_OneContributionPerSuccess ==
    \A c \in Callers :
        Fresh(c) /\ Successes(query[c].results) # {}
            => /\ ContributionsMatch(query[c].response[1], query[c].results)
               /\ \A s \in Strategies :
                    ContributionsMatch(
                        Execute(s, query[c].results, query[c].prompt, query[c].task_type),
                        query[c].results)

\* C7's case: a query has returned a response fused from two clients that
\* both succeeded, with two contributions.
C7_Witness ==
    /\ Fresh(1)
    /\ Cardinality(Successes(query[1].results)) = 2
    /\ Len(query[1].response[1].val[1].contributions) = 2

\* The response is Ok, built from successful results only.
FailuresRecovered(response, results) ==
    /\ response.ok
    /\ \A k \in 1..Len(response.val[1].contributions) :
          \E i \in Successes(results) : BuiltFrom(response.val[1].contributions[k], results[i])
    /\ \E i \in Successes(results) : response.val[1].content = results[i].text

\* C8: when at least one client succeeds query returns Ok, every
\* contribution is built from a successful result, and the content is the
\* text of a successful result; under the strategy query selected and under
\* each strategy of the enum.
C8_FailuresRecoveredLocally ==
    \A c \in Callers :
        Fresh(c) /\ Successes(query[c].results) # {}
            => /\ FailuresRecovered(query[c].response[1], query[c].results)
               /\ \A s \in Strategies :
                    FailuresRecovered(
                        Execute(s, query[c].results, query[c].prompt, query[c].task_type),
                        query[c].results)

\* C8's case: a query has returned Ok although its first client failed.
C8_Witness ==
    /\ Fresh(1)
    /\ Len(query[1].results) = 2
    /\ ~query[1].results[1].ok
    /\ query[1].results[2].ok
    /\ query[1].response[1].ok
    /\ query[1].response[1].val[1].content = query[1].results[2].text

\* C9: when a query has fused, the results it fused hold exactly one outcome
\* per configured client, that of the client's completed call, failures
\* included; the only errors of query are the fusions' own.
C9_FusionAfterAllComplete ==
    \A c \in Callers :
        Fresh(c)
            => /\ Len(query[c].results) = Len(clients)
               /\ \A i \in 1..Len(clients) :
                    /\ query[c].futures[i] # <<>>
                    /\ query[c].results[i] = query[c].futures[i][1]
                    /\ query[c].results[i].model = clients[i]
               /\ query[c].response[1].err \in
                    {"", "No successful responses", "No valid responses in tournament"}

\* C9's case: a query has fused results in which the first client succeeded
\* and the second failed.
C9_Witness ==
    /\ Fresh(1)
    /\ Len(clients) = 2
    /\ query[1].results[1].ok
    /\ ~query[1].results[2].ok

\* Caller c's query waits in join_all and every client that is not hung has
\* answered.
ResponsiveDone(c) ==
    /\ query[c].pc = "join_all"
    /\ \A i \in 1..Len(clients) : i \notin hung => query[c].futures[i] # <<>>

\* C10 as stated: with one client that never completes and the others
\* completing, query still returns in the end.
C10_StuckClientDoesNotDelay ==
    (query[1].pc = "join_all" /\ Cardinality(hung) = 1 /\ Len(clients) > 1) ~> Returned(1)

\* C10 as amended: the calls do not block one another, every client that is
\* not hung answers whether or not another is hung; but query returns only
\* once every client has answered: never while a client is hung, and in the
\* end when none is.
C10_QueryWaitsForAll ==
    /\ [](Fresh(1) => hung = {})
    /\ (query[1].pc = "join_all") ~> (ResponsiveDone(1) \/ Returned(1))
    /\ (query[1].pc = "join_all" /\ hung = {}) ~> Returned(1)

\* C10's case: one client is hung, the other has answered with success, and
\* the query still waits.
C10_Witness ==
    /\ ResponsiveDone(1)
    /\ hung = {1}
    /\ Len(clients) = 2
    /\ query[1].futures[2] # <<>>
    /\ query[1].futures[2][1].ok

\* C11: an entry inserted at time t is found by no lookup at t + CacheTtlSecs
\* or later, however many lookups it served in between; a query returns from
\* the cache only a response stored less than CacheTtlSecs before its
\* lookup, and a query whose prompt has no such response dispatches to every
\* client.
C11_ExpiresByTimeAlone ==
    /\ \A p \in Prompts :
          stored[p] # <<>> /\ now >= stored[p][1].at + CacheTtlSecs
              => CacheGet(cache, p, now) = <<>>
    /\ \A c \in Callers :
          /\ Returned(c) /\ query[c].from_cache => query[c].prior # <<>>
          /\ query[c].pc # "idle" /\ query[c].prior = <<>>
                => /\ ~query[c].from_cache
                   /\ \A i \in 1..Len(clients) : query[c].sent[i] = 1

\* C11's case: a response was stored, served a lookup, and CacheTtlSecs
\* after its insertion a query for its prompt has dispatched to the client
\* again.
C11_Witness ==
    /\ clients # <<>>
    /\ query[1].pc = "join_all"
    /\ query[1].sent[1] = 1
    /\ stored[query[1].prompt] # <<>>
    /\ stored[query[1].prompt][1].hits >= 1
    /\ now >= stored[query[1].prompt][1].at + CacheTtlSecs

\* Caller c's query dispatched to every client and returned the fusion of
\* the results of its own dispatch.
OwnFusedResult(c) ==
    /\ \A i \in 1..Len(clients) : query[c].sent[i] = 1
    /\ query[c].results = JoinAllOutput(query[c].futures)
    /\ query[c].response[1] =
          Execute(query[c].selected_strategy, query[c].results, query[c].prompt,
                  query[c].task_type)

\* C12: when two queries for the same prompt that both missed have finished,
\* each has dispatched and returned the fusion of its own results, and if
\* any of them returned Ok the cache holds for the prompt exactly the
\* response of the last one to insert, which is one of the returned
\* responses.
C12_LastWriterWins ==
    \A c, d \in Callers :
        c # d /\ Fresh(c) /\ Fresh(d) /\ query[c].prompt = query[d].prompt
            => /\ OwnFusedResult(c)
               /\ OwnFusedResult(d)
               /\ query[c].response[1].ok \/ query[d].response[1].ok
                     => /\ stored[query[c].prompt] # <<>>
                        /\ CacheGet(cache, query[c].prompt, now)
                              = <<stored[query[c].prompt][1].response>>
                        /\ \E w \in {c, d} :
                              /\ query[w].response[1].ok
                              /\ CacheGet(cache, query[c].prompt, now)
                                    = query[w].response[1].val
               /\ ~query[c].response[1].ok /\ ~query[d].response[1].ok
                     => CacheGet(cache, query[c].prompt, now) = <<>>

\* C12's case: two queries for one prompt have both missed and returned
\* different Ok responses; the cache holds the second caller's.
C12_Witness ==
    /\ Fresh(1) /\ Fresh(2)
    /\ clients # <<>>
    /\ query[1].prompt = query[2].prompt
    /\ query[1].response[1].ok /\ query[2].response[1].ok
    /\ query[1].response[1].val # query[2].response[1].val
    /\ CacheGet(cache, query[1].prompt, now) = query[2].response[1].val

\* The strategies that end in fuse_responses.
ParallelStrategies == {"Parallel", "Sequential", "Specialized"}

\* C13: under Parallel, Sequential and Specialized, with N successful
\* clients every contribution has weight 1/N, the weights sum to 1, and the
\* content is the response of the first success in client order.
C13_ParallelWeightsSumToOne ==
    \A c \in Callers :
        Fresh(c) /\ query[c].selected_strategy \in ParallelStrategies
                 /\ query[c].response[1].ok
            => LET r == query[c].response[1].val[1]
                   n == Cardinality(Successes(query[c].results))
                   first == CHOOSE i \in Successes(query[c].results) :
                               \A j \in Successes(query[c].results) : i <= j
               IN /\ \A k \in 1..Len(r.contributions) : r.contributions[k].weight = Rat(1, n)
                  /\ RatSum([k \in 1..Len(r.contributions) |-> r.contributions[k].weight])
                        = <<1, 1>>
                  /\ r.content = query[c].results[first].text

\* The strategies that end in execute_weighted_fusion for a prompt that is
\* neither code nor creative.
IsWeightedFusion(q) ==
    \/ q.selected_strategy \in {"WeightedFusion", "Consensus"}
    \/ q.selected_strategy = "Adaptive" /\ q.task_type \notin {"Code", "Creative"}

C15_ConfidenceIsWeightedAverage ==
    \A c \in Callers :
        Fresh(c) /\ IsWeightedFusion(query[c]) /\ query[c].response[1].ok
            => LET r == query[c].response[1].val[1]
                   ks == r.contributions
                   total_weight == RatSum([k \in 1..Len(ks) |-> ks[k].weight])
                   weighted == RatSum([k \in 1..Len(ks) |->
                                          RatMul(ks[k].confidence, ks[k].weight)])
               IN /\ RatLe(<<0, 1>>, r.confidence) /\ RatLe(r.confidence, <<1, 1>>)
                  /\ r.confidence = <<0, 1>> => total_weight = <<0, 1>>
                  /\ RatLt(<<0, 1>>, total_weight)
                        => /\ RatMul(r.confidence, total_weight) = weighted
                           /\ \E k \in 1..Len(ks) : RatLe(ks[k].confidence, r.confidence)
                           /\ \E k \in 1..Len(ks) : RatLe(r.confidence, ks[k].confidence)

\* C15's case: the weighted fusion of two successes of different confidence
\* has returned a confidence strictly between the two.
C15_Witness ==
    /\ Fresh(1) /\ IsWeightedFusion(query[1])
    /\ Len(query[1].response[1].val[1].contributions) = 2
    /\ LET r == query[1].response[1].val[1] IN
       /\ RatLt(r.contributions[1].confidence, r.confidence)
       /\ RatLt(r.confidence, r.contributions[2].confidence)

\* The strategies that end in execute_tournament.
IsTournament(q) ==
    \/ q.selected_strategy = "Tournament"
    \/ q.selected_strategy = "Adaptive" /\ q.task_type = "Creative"

\* The contributions of response r are the successes of results in the
\* order f: by descending score of the prompt, successes of equal score in
\* the order they were collected; each with confidence score / 100; the
\* first is the winner.
TournamentOrder(r, results, prompt, f) ==
    /\ \A j, k \in DOMAIN f : j # k => f[j] # f[k]
    /\ \A k \in DOMAIN f :
          /\ BuiltFrom(r.contributions[k], results[f[k]])
          /\ r.contributions[k].confidence
                = RatDiv(score_response(results[f[k]].text, prompt), <<100, 1>>)
    /\ \A k \in DOMAIN f : k + 1 \in DOMAIN f =>
          LET a == score_response(results[f[k]].text, prompt)
              b == score_response(results[f[k + 1]].text, prompt)
          IN RatLt(b, a) \/ (a = b /\ f[k] < f[k + 1])
    /\ r.content = results[f[1]].text
    /\ r.confidence = RatDiv(score_response(results[f[1]].text, prompt), <<100, 1>>)

\* C16: a tournament with at least one success returns the successes sorted
\* by descending score, ties in collection order; the content is the first
\* one's response and the confidence its score / 100.
C16_TournamentWinner ==
    \A c \in Callers :
        Fresh(c) /\ IsTournament(query[c]) /\ Successes(query[c].results) # {}
            => /\ query[c].response[1].ok
               /\ LET r == query[c].response[1].val[1]
                      succ == Successes(query[c].results)
                  IN /\ Len(r.contributions) = Cardinality(succ)
                     /\ \E f \in [1..Cardinality(succ) -> succ] :
                           TournamentOrder(r, query[c].results, query[c].prompt, f)

\* C16's case: of two successes of equal score by clients of different
\* names the first collected has won.
C16_Witness ==
    /\ Fresh(1) /\ IsTournament(query[1])
    /\ Len(query[1].results) = 2
    /\ Successes(query[1].results) = {1, 2}
    /\ clients[1] # clients[2]
    /\ query[1].results[1].text = query[1].results[2].text
    /\ query[1].response[1].val[1].contributions[1].model = clients[1]

\* C17: in every response of a tournament exactly one contribution, the
\* winner (the first), has weight 1 and every other has weight 0, also when
\* clients report the same name.
C17_ExactlyOneWinner ==
    \A c \in Callers :
        Fresh(c) /\ IsTournament(query[c]) /\ query[c].response[1].ok
            => LET ks == query[c].response[1].val[1].contributions IN
               /\ ks # <<>>
               /\ ks[1].weight = <<1, 1>>
               /\ \A k \in 2..Len(ks) : ks[k].weight = <<0, 1>>

\* C18: in every response built on a cache miss, under every strategy,
\* metrics.total_latency_ms is the largest latency measured in the query's
\* dispatch and metrics.models_used counts the query's models (those
\* dispatched to, or those that succeeded).
C18_MetricsAreMeasured ==
    \A c \in Callers :
        Fresh(c) /\ query[c].response[1].ok
            => LET m == query[c].response[1].val[1].metrics IN
               /\ m.total_latency_ms = MaxLatency(query[c].results)
               /\ m.models_used \in {Len(query[c].results),
                                     Cardinality(Successes(query[c].results))}

\* C19: execute_with_retry calls op at most retries + 1 times and calls it
\* no more after an Ok, which it returns; when retries + 1 attempts have
\* failed it returns the error of the last one; it sleeps only between
\* attempts, never after the last.
C19_AtMostRetriesPlusOne ==
    retry.pc # "none" =>
        /\ Len(retry.outcomes) <= retry.retries + 1
        /\ \A k \in 1..(Len(retry.outcomes) - 1) : ~retry.outcomes[k].ok
        /\ Len(retry.sleeps) <= retry.retries
        /\ retry.pc = "sleep" => Len(retry.outcomes) <= retry.retries
        /\ retry.pc = "done" =>
              LET n == Len(retry.outcomes) IN
              /\ n >= 1
              /\ retry.result = <<retry.outcomes[n]>>
              /\ ~retry.outcomes[n].ok => n = retry.retries + 1
              /\ Len(retry.sleeps) = n - 1

\* C19's case: every attempt has failed, with different errors, and the
\* function has returned the last one's.
C19_Witness ==
    /\ retry.pc = "done"
    /\ retry.retries = 2
    /\ Len(retry.outcomes) = 3
    /\ retry.outcomes[1].err = "network"
    /\ retry.result = <<Err("api")>>
    /\ Len(retry.sleeps) = 2

\* C20: the delay slept before attempt k + 1 is double the delay slept
\* before attempt k.
C20_DelayDoubles ==
    \A k \in 1..(Len(retry.sleeps) - 1) : retry.sleeps[k + 1] = 2 * retry.sleeps[k]

C22_StreamAddsOnlyUserMessage ==
    session.pc \in {"awaiting", "streaming", "returned"} /\ session.method = "stream"
        => /\ Len(session.conversation) = session.before + 1
           /\ session.conversation[session.before + 1]
                 = [role |-> "user", content |-> session.message]
           /\ session.conversation = session.sent

\* C22's case: a stream has yielded its chunks and ended, on a session that
\* had a history.
C22_Witness ==
    /\ session.pc = "returned" /\ session.method = "stream"
    /\ session.result # <<>> /\ session.result[1].ok
    /\ session.chunks = MaxChunks
    /\ session.before >= 2

\* C29: when send or send_with_metadata has returned Ok the history is the
\* history before the call, the user message, the assistant response; when
\* it has returned an error it is the history before the call and the user
\* message; the client is always given the whole history, user messages
\* left without a reply included.
C29_HistoryInStep ==
    /\ session.pc = "awaiting" => session.sent = session.conversation
    /\ session.pc = "returned" /\ session.method \in {"send", "send_with_metadata"}
          => LET n == session.before IN
             /\ SubSeq(session.conversation, 1, n + 1) = session.sent
             /\ session.sent[n + 1] = [role |-> "user", content |-> session.message]
             /\ IF session.result[1].ok
                THEN /\ Len(session.conversation) = n + 2
                     /\ session.conversation[n + 2]
                           = [role |-> "assistant", content |-> session.result[1].val[1]]
                ELSE Len(session.conversation) = n + 1

\* C29's case: a send failed, and the next send has given the client a
\* history with the unanswered user message followed by the new one, and
\* has returned Ok.
C29_Witness ==
    /\ session.pc = "returned" /\ session.method = "send"
    /\ session.result[1].ok
    /\ session.before >= 1
    /\ session.sent[session.before].role = "user"
    /\ session.sent[session.before + 1].role = "user"
    /\ session.conversation[Len(session.conversation)].role = "assistant"

\* The tasks whose record_request had returned when get_stats was called.
Recorded == counters.snapshot[1].recorded

\* The sum of f over the tasks 1..n that have recorded.
RECURSIVE SumRecorded(_, _)
SumRecorded(f, n) ==
    IF n = 0 THEN 0
    ELSE SumRecorded(f, n - 1) + (IF n \in Recorded THEN f[n] ELSE 0)

\* C23: a get_stats taken when every record_request call has returned
\* reports requests_total = the number of calls, requests_successful +
\* requests_failed = requests_total, total_tokens_used = the sum of the
\* Some(tokens), and average_latency_ms = the sum of the latencies divided by
\* requests_total, rounded down (0 when there was no call), whatever the
\* interleaving of the calls.
C23_CountersConsistent ==
    counters.pc = "shared" /\ counters.snapshot # <<>> /\ counters.snapshot[1].after_all
        => LET stats == counters.snapshot[1].stats
               calls == Cardinality(Recorded)
               latencies == SumRecorded([t \in Recorders |->
                                IF t \in Recorded THEN counters.tasks[t].args[1].latency_ms
                                ELSE 0], MaxRecorders)
               tokens == SumRecorded([t \in Recorders |->
                                IF t \in Recorded /\ counters.tasks[t].args[1].tokens # <<>>
                                THEN counters.tasks[t].args[1].tokens[1] ELSE 0], MaxRecorders)
               successes == Cardinality({t \in Recorded : counters.tasks[t].args[1].success})
           IN /\ stats.requests_total = calls
              /\ stats.requests_successful + stats.requests_failed = stats.requests_total
              /\ stats.requests_successful = successes
              /\ stats.total_tokens_used = tokens
              /\ stats.average_latency_ms = IF calls = 0 THEN 0 ELSE latencies \div calls

\* C23's case: three calls, with successes and a failure, with and without
\* tokens, have all returned and get_stats has reported an average that is
\* rounded down.
C23_Witness ==
    /\ counters.pc = "shared" /\ counters.snapshot # <<>> /\ counters.snapshot[1].after_all
    /\ Cardinality(Recorded) = 3
    /\ counters.snapshot[1].stats.requests_failed = 1
    /\ counters.snapshot[1].stats.total_tokens_used = 75
    /\ counters.snapshot[1].stats.average_latency_ms * 3 < counters.total_latency_ms

\* The keywords of the categories, in lower case.
Keywords(category) ==
    CASE category = "Code" ->
            {<<"c","o","d","e">>, <<"f","u","n","c","t","i","o","n">>,
             <<"i","m","p","l","e","m","e","n","t">>}
      [] category = "Creative" ->
            {<<"c","r","e","a","t","i","v","e">>, <<"s","t","o","r","y">>,
             <<"p","o","e","m">>}
      [] category = "Analysis" ->
            {<<"a","n","a","l","y","z","e">>, <<"e","x","p","l","a","i","n">>}
      [] category = "Mathematics" ->
            {<<"m","a","t","h">>, <<"c","a","l","c","u","l","a","t","e">>}
      [] OTHER -> {}

\* The categories in priority order; General is what is left.
CategoryPriority == <<"Code", "Creative", "Analysis", "Mathematics">>

\* The lower-case text has a keyword of the category.
Mentions(text, category) == \E kw \in Keywords(category) : contains(text, kw)

\* C24: the category of a prompt, in whatever casing it is written, is the
\* first of Code, Creative, Analysis, Mathematics of which the prompt in
\* lower case has a keyword, and General when it has none.
C24_ClassifierPriority ==
    scoring.pc = "input" /\ scoring.task_type # <<>>
        => LET matched == {k \in 1..Len(CategoryPriority) :
                              Mentions(scoring.base, CategoryPriority[k])}
           IN IF matched = {}
              THEN scoring.task_type[1] = "General"
              ELSE \E k \in matched :
                      /\ \A j \in matched : k <= j
                      /\ scoring.task_type[1] = CategoryPriority[k]

\* C24's case: "WRITE CREATIVE CODE FOR A POEM", in capitals, is Code.
C24_Witness ==
    /\ scoring.pc = "input"
    /\ scoring.base = BaseCreativeCode
    /\ scoring.casing = "upper"
    /\ scoring.prompt # scoring.base
    /\ scoring.task_type = <<"Code">>

\* The mapping of task types to strategies that the selector is to apply.
FixedMapping ==
    [t \in TaskTypes |->
        CASE t = "Code" -> "Specialized"
          [] t = "Creative" -> "Tournament"
          [] t = "Analysis" -> "WeightedFusion"
          [] t = "Mathematics" -> "Consensus"
          [] t = "General" -> "Adaptive"]

\* C25: on an orchestrator whose strategy was never set by the caller, a
\* query that misses the cache runs the strategy the fixed mapping gives for
\* the category of its prompt (Code to Specialized, Creative to Tournament,
\* Analysis to WeightedFusion, Mathematics to Consensus, General to
\* Adaptive), and the selector gives every category exactly one strategy.
C25_FixedMapping ==
    /\ \A c \in Callers :
          query[c].pc # "idle" /\ ~query[c].from_cache
              => /\ query[c].task_type \in TaskTypes
                 /\ query[c].selected_strategy = FixedMapping[query[c].task_type]
    /\ \A t \in TaskTypes :
          /\ select_strategy(strategy, t) \in Strategies
          /\ select_strategy(strategy, t) = FixedMapping[t]

\* C25's case: a query for "math" that missed the cache has run Consensus.
C25_Witness ==
    /\ Fresh(1)
    /\ query[1].prompt = PromptMath
    /\ query[1].task_type = "Mathematics"
    /\ query[1].selected_strategy = "Consensus"

\* The fusions that gather and fuse themselves.
ConcreteFusions == {"Parallel", "WeightedFusion", "Tournament"}

\* What Adaptive is to hand a prompt of a category to.
AdaptiveTarget(task_type) ==
    CASE task_type = "Code" -> "Specialized"
      [] task_type = "Creative" -> "Tournament"
      [] OTHER -> "WeightedFusion"

\* A chain of execute_* functions for a starting strategy and a category
\* enters Adaptive at most first and hands over as AdaptiveTarget says, has
\* at most three functions, ends in a concrete fusion, and gathers once.
BoundedDelegation(chain, s, task_type) ==
    /\ chain # <<>> /\ chain[1] = s
    /\ Len(chain) <= 3
    /\ \A k \in 2..Len(chain) : chain[k] # "Adaptive"
    /\ s = "Adaptive" => Len(chain) >= 2 /\ chain[2] = AdaptiveTarget(task_type)
    /\ chain[Len(chain)] \in ConcreteFusions
    /\ \A k \in 1..(Len(chain) - 1) : chain[k] \notin ConcreteFusions
    /\ fan_outs(chain) = 1

\* C26: Adaptive hands over once, to Specialized for Code, to Tournament for
\* Creative and to WeightedFusion otherwise, and is never entered again; so
\* from every starting strategy the execute_* functions reach Parallel,
\* WeightedFusion or Tournament within three steps and gather once, and a
\* query that misses the cache has called send_prompt exactly once on each
\* configured client.
C26_OneFanOut ==
    /\ \A s \in Strategies, t \in TaskTypes :
          BoundedDelegation(delegation_chain(s, t), s, t)
    /\ \A c \in Callers :
          query[c].pc # "idle" /\ ~query[c].from_cache
              => /\ BoundedDelegation(query[c].delegation, query[c].selected_strategy,
                                      query[c].task_type)
                 /\ Len(query[c].sent) = Len(clients)
                 /\ \A i \in 1..Len(clients) : query[c].sent[i] = 1
                 /\ query[c].pc = "returned"
                        => query[c].response[1] =
                              Execute(query[c].delegation[Len(query[c].delegation)],
                                      query[c].results, query[c].prompt, query[c].task_type)

\* C26's case: a query for "hi" on two clients started from Adaptive, went
\* on to WeightedFusion and returned after one call on each client.
C26_Witness ==
    /\ Fresh(1)
    /\ Len(clients) = 2
    /\ query[1].selected_strategy = "Adaptive"
    /\ query[1].delegation = <<"Adaptive", "WeightedFusion">>
    /\ query[1].sent = <<1, 1>>
    /\ query[1].response[1].ok

Bonus(condition, tenths) == IF condition THEN <<tenths, 10>> ELSE <<0, 1>>

\* C28: the confidence is 0.5, plus 0.1 when the response length lies in
\* [0.5, 3] times (prompt length * 10), endpoints included, plus 0.1 for a
\* final '.', '!' or '?', plus 0.2 when the prompt has "code" and the
\* response a code fence, plus 0.1 when the response has a line break and a
\* colon, at most 1.0; it lies in [0.5, 1.0].
C28_ConfidenceFormula ==
    scoring.pc = "input" /\ scoring.confidence # <<>>
        => LET prompt == scoring.prompt
               response == scoring.response
               expected == Len(prompt) * 10
               in_band == 2 * Len(response) >= expected /\ Len(response) <= 3 * expected
               punctuated == response # <<>> /\ response[Len(response)] \in {".", "!", "?"}
               fenced == /\ contains(prompt, <<"c","o","d","e">>)
                         /\ contains(response, <<Backtick, Backtick, Backtick>>)
               structured == contains_char(response, "\n") /\ contains_char(response, ":")
               total == RatSum(<< <<1, 2>>, Bonus(in_band, 1), Bonus(punctuated, 1),
                                  Bonus(fenced, 2), Bonus(structured, 1) >>)
           IN /\ scoring.confidence[1] = RatMin(total, <<1, 1>>)
              /\ RatLe(<<1, 2>>, scoring.confidence[1])
              /\ RatLe(scoring.confidence[1], <<1, 1>>)

\* The event a block is to give, if it has a data line.
BlockEvent(block) ==
    CASE block = BlockDataA -> <<SseEvent(<<>>, <<"a">>, <<>>, <<>>)>>
      [] block = BlockDataB -> <<SseEvent(<<>>, <<"b">>, <<>>, <<>>)>>
      [] OTHER -> <<>>

\* The events of a list of blocks, in the order of the blocks.
RECURSIVE BlockEvents(_)
BlockEvents(blocks) ==
    IF blocks = <<>> THEN <<>> ELSE BlockEvent(blocks[1]) \o BlockEvents(Tail(blocks))

\* C30: the events returned are, in order, those of the blocks with a data
\* line, one event per block, whatever chunks the bytes arrive in: at every
\* moment the events returned so far are the first of them, and all of them
\* once the stream has ended.
C30_OneEventPerDataBlock ==
    sse.pc # "none"
        => LET expected == BlockEvents(sse.blocks)
           IN /\ Len(sse.emitted) <= Len(expected)
              /\ sse.emitted = SubSeq(expected, 1, Len(sse.emitted))
              /\ sse.pc = "ended" => sse.emitted = expected

====
